---- MODULE Spec2Model ----
(***************************************************************************)
(* The deliberation engine of E-Cassan: DebateManager.run_full_debate      *)
(* (initial analysis, debate rounds, convergence check), followed by       *)
(* ConsensusBuilder.generate_final_report and                              *)
(* SignalGenerator.generate_signal as ECassanSystem.analyze_stock chains   *)
(* them.                                                                   *)
(*                                                                         *)
(* Confidences, weights and prices are integers in hundredths (80 is       *)
(* 0.80); quotients are exact rationals [n, d] in lowest terms.            *)
(* AgentResponse objects live in a heap indexed by the agent that created  *)
(* them; response lists hold references into the heap, as the Python lists *)
(* do.                                                                     *)
(***************************************************************************)
EXTENDS Integers, Sequences, FiniteSets, TLC

\* Number of analysts handed to DebateManager.
NumAgents == 3

\* config.reasoning_config.get('max_debate_rounds', 3)
max_rounds == 3

\* At most this many debate replies of one session are anything other than
\* a reply that leaves out both "recommendation" and "confidence": in runs
\* of run_full_debate alone (MaxEvents) and in runs of the whole chain of
\* analyze_stock (MaxChainEvents).
MaxEvents == 2
MaxChainEvents == 1

Agents == 1..NumAgents

Recommendations == {"BUY", "SELL", "SHORT", "HOLD"}

\* Field(ge=0.0, le=1.0) of AgentResponse.confidence and of
\* TradingSignal.confidence / consensus_level, in hundredths.
ConfidenceMin == 0
ConfidenceMax == 100

\* identify_disagreements: confidence_spread > 0.4
SpreadThreshold == 40

\* The neutral default of parse_llm_response (confidence 0.5) and the
\* confidence of an analysis that failed (0.0).
DefaultConfidence == 50
FailedConfidence == 0

(***************************************************************************)
(* Rationals                                                               *)
(***************************************************************************)
RECURSIVE GCD(_, _)
GCD(a, b) == IF b = 0 THEN a ELSE GCD(b, a % b)

Abs(x) == IF x < 0 THEN -x ELSE x

\* n / d in lowest terms, d > 0.
Rat(n, d) ==
    LET g == GCD(Abs(n), Abs(d))
        s == IF d < 0 THEN -1 ELSE 1
    IN  [n |-> s * (n \div g), d |-> s * (d \div g)]

RatLE(a, b) == a.n * b.d <= b.n * a.d
RatLT(a, b) == a.n * b.d < b.n * a.d
RatEQ(a, b) == a.n * b.d = b.n * a.d
RatAdd(a, b) == Rat(a.n * b.d + b.n * a.d, a.d * b.d)
RatMul(a, b) == Rat(a.n * b.n, a.d * b.d)
\* a / b, b # 0
RatDiv(a, b) == Rat(a.n * b.d, a.d * b.n)
RatZero == [n |-> 0, d |-> 1]
RatOne == [n |-> 1, d |-> 1]

\* A value kept in hundredths, as a rational.
Hundredths(x) == Rat(x, 100)

(***************************************************************************)
(* What an analyst's LLM call can yield.  kind "raise": call_llm raises;   *)
(* "nojson": the text holds no {...}; "badjson": json.loads fails; "json": *)
(* a JSON object, which may lack either key, may carry a confidence that   *)
(* float() rejects (numeric = FALSE) and is not validated otherwise.       *)
(***************************************************************************)
Reply(kind, has_rec, rec, has_conf, numeric, conf) ==
    [kind |-> kind, has_rec |-> has_rec, recommendation |-> rec,
     has_conf |-> has_conf, numeric |-> numeric, confidence |-> conf]

JsonReply(rec, conf) == Reply("json", TRUE, rec, TRUE, TRUE, conf)

\* A JSON object with neither key: the analyst restates nothing new.
EmptyReply == Reply("json", FALSE, "", FALSE, FALSE, 0)

LLMReplies ==
    { Reply("raise", FALSE, "", FALSE, FALSE, 0),
      Reply("nojson", FALSE, "", FALSE, FALSE, 0),
      Reply("badjson", FALSE, "", FALSE, FALSE, 0),
      EmptyReply,
      JsonReply("BUY", 80),
      JsonReply("SELL", 80),
      JsonReply("SHORT", 30),
      Reply("json", TRUE, "HOLD", TRUE, FALSE, 0),
      JsonReply("STRONG_BUY", 150) }

\* BaseAgent.parse_llm_response: the JSON object as it is, or the neutral
\* default when no JSON is found or it does not decode.
parse_llm_response(reply) ==
    IF reply.kind = "json"
    THEN [has_rec |-> reply.has_rec, recommendation |-> reply.recommendation,
          has_conf |-> reply.has_conf, numeric |-> reply.numeric,
          confidence |-> reply.confidence]
    ELSE [has_rec |-> TRUE, recommendation |-> "HOLD",
          has_conf |-> TRUE, numeric |-> TRUE,
          confidence |-> DefaultConfidence]

\* An AgentResponse object: the fields the engine reads.
AgentResponse(name, rec, conf) ==
    [agent_name |-> name, recommendation |-> rec, confidence |-> conf]

\* Field(ge=0.0, le=1.0)
ConfidenceValid(conf) == conf >= ConfidenceMin /\ conf <= ConfidenceMax

\* The concrete analysts' analyze (TechnicalAgent and its siblings): the
\* whole body is wrapped in try/except and any failure (call_llm raising,
\* float() rejecting the confidence, the AgentResponse constructor
\* rejecting an out-of-range confidence) yields HOLD with confidence 0.0.
\* The try block of analyze raises and its except branch answers.
analyze_fails(reply) ==
    LET parsed == parse_llm_response(reply)
        conf == IF parsed.has_conf THEN parsed.confidence ELSE DefaultConfidence
    IN  \/ reply.kind = "raise"
        \/ parsed.has_conf /\ ~parsed.numeric
        \/ ~ConfidenceValid(conf)

\* What analyze returns.
analyze(name, reply) ==
    LET parsed == parse_llm_response(reply)
        rec == IF parsed.has_rec THEN parsed.recommendation ELSE "HOLD"
        conf == IF parsed.has_conf THEN parsed.confidence ELSE DefaultConfidence
    IN  IF analyze_fails(reply)
        THEN AgentResponse(name, "HOLD", FailedConfidence)
        ELSE AgentResponse(name, rec, conf)

(***************************************************************************)
(* Helpers over response lists.  A response list is a sequence of heap     *)
(* references; Vals dereferences it.                                       *)
(***************************************************************************)
Vals(heap, refs) == [k \in 1..Len(refs) |-> heap[refs[k]]]

CountRec(rs, rec) == Cardinality({k \in 1..Len(rs) : rs[k].recommendation = rec})

RecsOf(rs) == {rs[k].recommendation : k \in 1..Len(rs)}

SetMax(S) == CHOOSE x \in S : \A y \in S : y <= x
SetMin(S) == CHOOSE x \in S : \A y \in S : x <= y

\* DebateManager.calculate_consensus
calculate_consensus(rs) ==
    IF Len(rs) = 0
    THEN RatZero
    ELSE LET agreement_count == SetMax({CountRec(rs, r) : r \in RecsOf(rs)})
         IN  Rat(agreement_count, Len(rs))

\* DebateManager.identify_disagreements: the set of descriptor types it
\* returns (the list is empty exactly when the set is).
\* Mutant: SHORT does not count as the selling side.
HasRecommendationConflictSellOnly(rs) ==
    /\ CountRec(rs, "BUY") > 0
    /\ CountRec(rs, "SELL") > 0

HasRecommendationConflict(rs) ==
    /\ CountRec(rs, "BUY") > 0
    /\ (CountRec(rs, "SELL") > 0 \/ CountRec(rs, "SHORT") > 0)

ConfidenceSpread(rs) ==
    LET confidences == {rs[k].confidence : k \in 1..Len(rs)}
    IN  SetMax(confidences) - SetMin(confidences)

\* Mutant: divergence judged by the descriptor's high and low lists.
HasConfidenceDivergenceHighLow(rs) ==
    /\ \E k \in 1..Len(rs) : rs[k].confidence > 70
    /\ \E k \in 1..Len(rs) : rs[k].confidence < 40

\* Mutant: a spread of exactly 0.4 counts.
HasConfidenceDivergenceAtLeast(rs) ==
    /\ Len(rs) > 0
    /\ ConfidenceSpread(rs) >= SpreadThreshold

HasConfidenceDivergence(rs) ==
    /\ Len(rs) > 0
    /\ ConfidenceSpread(rs) > SpreadThreshold

identify_disagreements(rs) ==
    (IF HasRecommendationConflict(rs) THEN {"recommendation_conflict"} ELSE {})
    \cup
    (IF HasConfidenceDivergence(rs) THEN {"confidence_divergence"} ELSE {})

\* [r.agent_name for r in responses if ...]: the names, in list order, of
\* the responses at the indices in S.
RECURSIVE NamesAt(_, _, _)
NamesAt(rs, S, k) ==
    IF k > Len(rs) THEN <<>>
    ELSE (IF k \in S THEN <<rs[k].agent_name>> ELSE <<>>)
            \o NamesAt(rs, S, k + 1)

NamesWithRec(rs, rec) ==
    NamesAt(rs, {k \in 1..Len(rs) : rs[k].recommendation = rec}, 1)

\* confidence > 0.7 and confidence < 0.4 of the confidence_divergence
\* descriptor, in hundredths.
HighConfidence == 70
LowConfidence == 40

\* A descriptor; the lists its type does not carry are empty.
Descriptor(type, buy, sell, short, high, low) ==
    [type |-> type, buy_agents |-> buy, sell_agents |-> sell,
     short_agents |-> short, high_confidence |-> high, low_confidence |-> low]

\* DebateManager.identify_disagreements: the list it returns.
identify_disagreements_list(rs) ==
    (IF HasRecommendationConflict(rs)
     THEN << Descriptor("recommendation_conflict",
                NamesWithRec(rs, "BUY"), NamesWithRec(rs, "SELL"),
                NamesWithRec(rs, "SHORT"), <<>>, <<>>) >>
     ELSE <<>>)
    \o
    (IF HasConfidenceDivergence(rs)
     THEN << Descriptor("confidence_divergence", <<>>, <<>>, <<>>,
                NamesAt(rs, {k \in 1..Len(rs) :
                                rs[k].confidence > HighConfidence}, 1),
                NamesAt(rs, {k \in 1..Len(rs) :
                                rs[k].confidence < LowConfidence}, 1)) >>
     ELSE <<>>)

(***************************************************************************)
(* ConsensusBuilder.  Its inputs are lists of AgentResponse values; a      *)
(* weight map is a function from agent names to rationals, and a name      *)
(* outside its domain gets 1 / len(responses).                             *)
(***************************************************************************)
\* The keys of weighted_scores / scores, in the dict's insertion order.
ScoreKeys == <<"BUY", "SELL", "SHORT", "HOLD">>

RECURSIVE SumRat(_, _)
\* sum(f[k] for k in 1..n)
SumRat(f, n) == IF n = 0 THEN RatZero ELSE RatAdd(SumRat(f, n - 1), f[n])

\* max(scores.items(), key=lambda x: x[1])[0]: the first key, in insertion
\* order, whose score no other key exceeds.
ArgMaxFirst(scores) ==
    LET best(k) == \A j \in 1..Len(ScoreKeys) :
                        RatLE(scores[ScoreKeys[j]], scores[ScoreKeys[k]])
        first == SetMin({k \in 1..Len(ScoreKeys) : best(k)})
    IN  ScoreKeys[first]

\* Mutant: the first recommendation of the list with its count.
MostCommonIsFirst(rs) ==
    [recommendation |-> rs[1].recommendation,
     count |-> CountRec(rs, rs[1].recommendation)]

\* Counter(...).most_common(1)[0]: the most frequent recommendation, the one
\* first encountered among equals, with its count.
MostCommon(rs) ==
    LET top == SetMax({CountRec(rs, r) : r \in RecsOf(rs)})
        first == SetMin({k \in 1..Len(rs) :
                            CountRec(rs, rs[k].recommendation) = top})
    IN  [recommendation |-> rs[first].recommendation, count |-> top]

\* A dict the result does not carry.
NoCounts == [r \in {} |-> 0]
NoScores == [r \in {} |-> RatZero]

\* Mutant: an empty list counts as full agreement.
EmptyConsensusAgreed(method) ==
    [raises |-> "none", recommendation |-> "HOLD", confidence |-> RatZero,
     consensus_level |-> RatOne, method |-> method,
     keys |-> {"recommendation", "confidence", "consensus_level", "method",
               "details"},
     breakdown |-> NoCounts, votes |-> NoCounts,
     weighted_scores |-> NoScores, scores |-> NoScores]

\* The result returned for an empty list, by each method.
EmptyConsensus(method) ==
    [raises |-> "none", recommendation |-> "HOLD", confidence |-> RatZero,
     consensus_level |-> RatZero, method |-> method,
     keys |-> {"recommendation", "confidence", "consensus_level", "method",
               "details"},
     breakdown |-> NoCounts, votes |-> NoCounts,
     weighted_scores |-> NoScores, scores |-> NoScores]

\* A dict lookup that failed: weighted_scores[response.recommendation] for
\* a recommendation that is none of the four keys.
ConsensusKeyError(method) ==
    [EmptyConsensus(method) EXCEPT !.raises = "KeyError", !.keys = {}]

\* Mutant: the configured weights are ignored.
WeightOfUniform(weights, rs, k) == Rat(1, Len(rs))

WeightOf(weights, rs, k) ==
    IF rs[k].agent_name \in DOMAIN weights
    THEN weights[rs[k].agent_name]
    ELSE Rat(1, Len(rs))

\* Mutant: a class scores the number of its votes.
ClassScoreVotes(rs, wc, rec) == Rat(CountRec(rs, rec), 1)

\* "weighted_scores[response.recommendation] += weight * response.confidence"
\* over the loop: what the class rec has accumulated, wc[k] being the
\* product for the k-th response.
ClassScore(rs, wc, rec) ==
    SumRat([k \in 1..Len(rs) |->
                IF rs[k].recommendation = rec THEN wc[k] ELSE RatZero], Len(rs))

\* ConsensusBuilder.calculate_weighted_recommendation
calculate_weighted_recommendation(rs, weights) ==
    IF Len(rs) = 0 THEN EmptyConsensus("default")
    ELSE IF \E k \in 1..Len(rs) : rs[k].recommendation \notin Recommendations
    THEN ConsensusKeyError("weighted")
    ELSE
    LET n == Len(rs)
        w == [k \in 1..n |-> WeightOf(weights, rs, k)]
        wc == [k \in 1..n |-> RatMul(w[k], Hundredths(rs[k].confidence))]
        total_weight == SumRat(w, n)
        raw(rec) == ClassScore(rs, wc, rec)
        norm(x) == IF RatLT(RatZero, total_weight)
                   THEN RatDiv(x, total_weight) ELSE x
        weighted_scores == [rec \in Recommendations |-> norm(raw(rec))]
        weighted_confidence == norm(SumRat(wc, n))
    IN  [raises |-> "none",
         recommendation |-> ArgMaxFirst(weighted_scores),
         confidence |-> weighted_confidence,
         consensus_level |-> Rat(MostCommon(rs).count, n),
         method |-> "weighted",
         keys |-> {"recommendation", "confidence", "weighted_scores",
                   "consensus_level", "method", "total_agents", "breakdown"},
         breakdown |-> [rec \in Recommendations |-> CountRec(rs, rec)],
         votes |-> NoCounts,
         weighted_scores |-> weighted_scores,
         scores |-> NoScores]

\* Mutant: the mean confidence of all responses.
MeanConfidenceOfAll(rs, S) ==
    RatDiv(SumRat([k \in 1..Len(rs) |-> Hundredths(rs[k].confidence)], Len(rs)),
           Rat(Len(rs), 1))

\* sum(r.confidence for r in winning_responses) / len(winning_responses),
\* S being the indices of the winning responses.
MeanConfidence(rs, S) ==
    RatDiv(SumRat([k \in 1..Len(rs) |->
                    IF k \in S THEN Hundredths(rs[k].confidence)
                    ELSE RatZero], Len(rs)),
           Rat(Cardinality(S), 1))

\* ConsensusBuilder.calculate_majority_vote
calculate_majority_vote(rs) ==
    IF Len(rs) = 0 THEN EmptyConsensus("majority_vote")
    ELSE
    LET n == Len(rs)
        most_common == MostCommon(rs)
        winning == {k \in 1..n :
                        rs[k].recommendation = most_common.recommendation}
    IN  [raises |-> "none",
         recommendation |-> most_common.recommendation,
         confidence |-> MeanConfidence(rs, winning),
         consensus_level |-> Rat(most_common.count, n),
         method |-> "majority_vote",
         keys |-> {"recommendation", "confidence", "consensus_level",
                   "method", "votes", "total_agents", "winning_votes"},
         breakdown |-> NoCounts,
         votes |-> [rec \in RecsOf(rs) |-> CountRec(rs, rec)],
         weighted_scores |-> NoScores,
         scores |-> NoScores]

\* Mutant: every response weighs 1 / len(responses).
VoteWeightUniform(rs, k, total_confidence) == Rat(1, Len(rs))

\* What the k-th response adds to the score of its class: 1 / len(responses)
\* when total_confidence == 0, else confidence / total_confidence.
VoteWeight(rs, k, total_confidence) ==
    IF RatEQ(total_confidence, RatZero)
    THEN Rat(1, Len(rs))
    ELSE RatDiv(Hundredths(rs[k].confidence), total_confidence)

\* ConsensusBuilder.calculate_confidence_weighted
calculate_confidence_weighted(rs) ==
    IF Len(rs) = 0 THEN EmptyConsensus("confidence_weighted")
    ELSE IF \E k \in 1..Len(rs) : rs[k].recommendation \notin Recommendations
    THEN ConsensusKeyError("confidence_weighted")
    ELSE
    LET n == Len(rs)
        conf == [k \in 1..n |-> Hundredths(rs[k].confidence)]
        total_confidence == SumRat(conf, n)
        weight(k) == VoteWeight(rs, k, total_confidence)
        scores == [rec \in Recommendations |->
                    SumRat([k \in 1..n |->
                        IF rs[k].recommendation = rec THEN weight(k)
                        ELSE RatZero], n)]
    IN  [raises |-> "none",
         recommendation |-> ArgMaxFirst(scores),
         confidence |-> RatDiv(total_confidence, Rat(n, 1)),
         consensus_level |-> Rat(MostCommon(rs).count, n),
         method |-> "confidence_weighted",
         keys |-> {"recommendation", "confidence", "scores",
                   "consensus_level", "method", "total_agents"},
         breakdown |-> NoCounts,
         votes |-> NoCounts,
         weighted_scores |-> NoScores,
         scores |-> scores]

\* The method names analyze_stock may be given; "other" is any unknown name.
Methods == {"weighted", "majority", "confidence", "other"}

\* ConsensusBuilder.build_consensus
build_consensus(rs, method, weights) ==
    IF method = "weighted" THEN calculate_weighted_recommendation(rs, weights)
    ELSE IF method = "majority" THEN calculate_majority_vote(rs)
    ELSE IF method = "confidence" THEN calculate_confidence_weighted(rs)
    ELSE calculate_weighted_recommendation(rs, weights)

(***************************************************************************)
(* SignalGenerator                                                         *)
(***************************************************************************)
\* confidence_thresholds['high'], default 0.8
high_threshold == 80

\* determine_signal_strength: consensus_level >= 0.75
StrongConsensus == 75

\* Mutant: high confidence alone escalates.
IsStrongOnConfidence(confidence, consensus_level) ==
    RatLE(Hundredths(high_threshold), confidence)

\* "confidence >= high_threshold and consensus_level >= 0.75"
IsStrong(confidence, consensus_level) ==
    /\ RatLE(Hundredths(high_threshold), confidence)
    /\ RatLE(Hundredths(StrongConsensus), consensus_level)

\* SignalGenerator.determine_signal_strength
determine_signal_strength(recommendation, confidence, consensus_level) ==
    LET strong == IsStrong(confidence, consensus_level)
    IN  IF recommendation = "BUY"
        THEN (IF strong THEN "STRONG_BUY" ELSE "BUY")
        ELSE IF recommendation = "SELL"
        THEN (IF strong THEN "STRONG_SELL" ELSE "SELL")
        ELSE IF recommendation = "SHORT"
        THEN (IF strong THEN "STRONG_SHORT" ELSE "SHORT")
        ELSE "HOLD"

\* No current price: None (0 is falsy as well).
NoPrice == 0

\* Mutant: the percentage does not depend on the confidence.
TargetPctFlat(base, slope, x) == Hundredths(base)

\* "target_pct = 0.05 + (confidence * 0.10)" and its like, base and slope in
\* hundredths.
TargetPct(base, slope, x) ==
    RatAdd(Hundredths(base), RatMul(Hundredths(slope), x))

\* "current_price * (1 + target_pct)"
PriceUp(price, x) == RatMul(price, RatAdd(RatOne, x))

\* Mutant: a downside level is computed like an upside level.
PriceDownAsUp(price, x) == RatMul(price, RatAdd(RatOne, x))

\* "current_price * (1 - target_pct)"
PriceDown(price, x) == RatMul(price, RatAdd(RatOne, RatMul(Rat(-1, 1), x)))

\* SignalGenerator.estimate_price_targets; set = FALSE is (None, None).
estimate_price_targets(recommendation, confidence, current_price) ==
    LET price == Hundredths(current_price)
        pct(base, slope, x) == TargetPct(base, slope, x)
        up(x) == PriceUp(price, x)
        down(x) == PriceDown(price, x)
    IN  IF current_price = NoPrice
        THEN [set |-> FALSE, price_target |-> RatZero, stop_loss |-> RatZero]
        ELSE IF recommendation = "BUY"
        THEN [set |-> TRUE,
              price_target |-> up(pct(5, 10, confidence)),
              stop_loss |-> RatMul(price, Hundredths(95))]
        ELSE IF recommendation = "SELL"
        THEN [set |-> TRUE,
              price_target |-> down(pct(5, 10, confidence)),
              stop_loss |-> RatMul(price, Hundredths(105))]
        ELSE IF recommendation = "SHORT"
        THEN [set |-> TRUE,
              price_target |-> down(pct(10, 15, confidence)),
              stop_loss |-> up(pct(5, 3, RatAdd(RatOne,
                                    RatMul(Rat(-1, 1), confidence))))]
        ELSE [set |-> TRUE,
              price_target |-> price,
              stop_loss |-> RatMul(price, Hundredths(90))]

\* SignalGenerator.determine_time_horizon
determine_time_horizon(confidence) ==
    IF RatLE(Hundredths(80), confidence) THEN "long_term"
    ELSE IF RatLE(Hundredths(60), confidence) THEN "medium_term"
    ELSE "short_term"

\* Mutant: company_name and debate_rounds declared Optional.
TradingSignalValidOptional(none_fields, confidence, consensus_level) ==
    /\ RatLE(RatZero, confidence) /\ RatLE(confidence, RatOne)
    /\ RatLE(RatZero, consensus_level) /\ RatLE(consensus_level, RatOne)

\* The validation pydantic runs when a TradingSignal is constructed:
\* company_name must be a str and debate_rounds an int (None is neither),
\* confidence and consensus_level must lie in [0, 1].
TradingSignalValid(none_fields, confidence, consensus_level) ==
    /\ "company_name" \notin none_fields
    /\ "total_rounds" \notin none_fields
    /\ RatLE(RatZero, confidence) /\ RatLE(confidence, RatOne)
    /\ RatLE(RatZero, consensus_level) /\ RatLE(consensus_level, RatOne)

(***************************************************************************)
(* State of one run of DebateManager.run_full_debate                       *)
(***************************************************************************)
VARIABLES
    pc,                 \* where the run is
    i,                  \* index of the agent the current loop is at
    round_num,          \* round_num of the loop of run_full_debate
    heap,               \* the AgentResponse object each agent's analyze made
    responses,          \* the list conduct_initial_analysis builds
    current_responses,  \* run_full_debate's current_responses
    all_rounds,         \* run_full_debate's all_rounds
    debate_round,       \* the DebateRound conduct_debate_round is filling
    result,             \* what run_full_debate returned
    exception,          \* the exception that escaped, if any
    loop_exit,          \* how the loop over rounds ended
    calls,              \* per agent, the rounds in which it was invoked
    events,             \* debate replies spent from MaxEvents
    held,               \* per closed round, the positions as they were then
    report,             \* what generate_final_report returned
    trading_signal,     \* what generate_signal returned
    failed_agents,      \* the agents whose initial analysis failed
    last_call,          \* the latest analyst call and how it went
    deadline,           \* whether, and in which round, the deadline passed
    positions,          \* a position list handed to a function on its own
    weight_map,         \* ConsensusBuilder.agent_weights at that call
    consensus_result,   \* what build_consensus returned for positions
    disagreement_list,  \* what identify_disagreements returned for positions
    signal_input,       \* a consensus and a price handed to SignalGenerator
    signal_output       \* what its function returned for signal_input

session_vars == <<pc, i, round_num, heap, responses, current_responses,
                  all_rounds, debate_round, result, exception, loop_exit,
                  calls, events, held, report, trading_signal, failed_agents,
                  last_call, deadline>>

function_vars == <<positions, weight_map, consensus_result, disagreement_list,
                   signal_input, signal_output>>

vars == <<session_vars, function_vars>>

\* No object: the agent's analyze raised, nothing was created.
NoResponse == AgentResponse(0, "", 0)

\* DebateRound.__init__
DebateRound(round_number) ==
    [round_number |-> round_number, agent_responses |-> <<>>,
     debates |-> <<>>, consensus_level |-> RatZero]

\* DebateRound.to_dict: reads the objects the round refers to when called.
to_dict(round, h) ==
    [round_number |-> round.round_number,
     consensus_level |-> round.consensus_level,
     agent_responses |->
        [k \in 1..Len(round.agent_responses) |->
            [agent |-> h[round.agent_responses[k]].agent_name,
             recommendation |-> h[round.agent_responses[k]].recommendation,
             confidence |-> h[round.agent_responses[k]].confidence]],
     debates |-> round.debates]

NoResult ==
    [keys |-> {}, total_rounds |-> 0, rounds |-> <<>>, final_responses |-> <<>>]

\* run_full_debate, the dictionary returned when no agent responded.
ErrorResult ==
    [keys |-> {"error", "ticker", "timestamp"},
     total_rounds |-> 0, rounds |-> <<>>, final_responses |-> <<>>]

\* run_full_debate, "Compile results".
CompileResult(rounds, cur, h) ==
    [keys |-> {"ticker", "company_name", "timestamp", "total_rounds",
               "rounds", "final_responses"},
     total_rounds |-> Len(rounds),
     rounds |-> [k \in 1..Len(rounds) |-> to_dict(rounds[k], h)],
     final_responses |->
        [k \in 1..Len(cur) |->
            [agent |-> h[cur[k]].agent_name,
             recommendation |-> h[cur[k]].recommendation,
             confidence |-> h[cur[k]].confidence]]]

\* The positions a round holds, copied out of the heap.
Snapshot(round, h) == to_dict(round, h).agent_responses

\* BaseAgent.__init__: agent_config.get('weight', 0.25)
DefaultWeight == 25

\* AgentFactory.get_agent_weights, handed to set_agent_weights by
\* ECassanSystem.__init__.
agent_weights == [a \in Agents |-> Hundredths(DefaultWeight)]

\* The current prices analyze_stock may find in the raw data.
Prices == {NoPrice, 10000}

NoReport ==
    [made |-> FALSE, none_fields |-> {}, consensus |-> EmptyConsensus("default"),
     total_rounds |-> 0, participating_agents |-> 0,
     individual_positions |-> <<>>]

NoSignal ==
    [made |-> FALSE, signal |-> "", confidence |-> RatZero,
     consensus_level |-> RatZero, agent_breakdown |-> NoCounts,
     weighted_scores |-> NoScores,
     targets |-> estimate_price_targets("HOLD", RatZero, NoPrice),
     time_horizon |-> "", total_agents |-> 0, debate_rounds |-> 0,
     methodology |-> "", individual_agent_views |-> <<>>]

\* No call of a function on its own has been made.
NoConsensus == [made |-> FALSE, method |-> "", result |-> EmptyConsensus("")]
NoDisagreements == [made |-> FALSE, list |-> <<>>]
NoSignalInput ==
    [recommendation |-> "HOLD", confidence |-> 0, consensus_level |-> 0,
     current_price |-> NoPrice]
NoSignalOutput ==
    [made |-> "none", signal |-> "",
     targets |-> estimate_price_targets("HOLD", RatZero, NoPrice)]

\* No analyst has been called; no deadline has passed.
NoCall == [agent |-> 0, round |-> 0, outcome |-> "none", failed |-> FALSE]
NoDeadline == [passed |-> FALSE, round |-> 0]

\* What came of the LLM call: call_llm raised, parse_llm_response could not
\* parse the text, or it returned the JSON object of the text.
Outcome(reply) ==
    IF reply.kind = "raise" THEN "raised"
    ELSE IF reply.kind \in {"nojson", "badjson"} THEN "unparsed"
    ELSE "answered"

InitSession ==
    /\ pc = "analysis"
    /\ i = 1
    /\ round_num = 0
    /\ heap = [a \in Agents |-> NoResponse]
    /\ responses = <<>>
    /\ current_responses = <<>>
    /\ all_rounds = <<>>
    /\ debate_round = DebateRound(0)
    /\ result = NoResult
    /\ exception = "none"
    /\ loop_exit = "none"
    /\ calls = [a \in Agents |-> <<>>]
    /\ events = 0
    /\ held = <<>>
    /\ report = NoReport
    /\ trading_signal = NoSignal
    /\ failed_agents = {}
    /\ last_call = NoCall
    /\ deadline = NoDeadline

Init ==
    /\ InitSession
    /\ positions = <<>>
    /\ weight_map = agent_weights
    /\ consensus_result = NoConsensus
    /\ disagreement_list = NoDisagreements
    /\ signal_input = NoSignalInput
    /\ signal_output = NoSignalOutput

(***************************************************************************)
(* conduct_initial_analysis: one iteration of "for agent in self.agents".  *)
(***************************************************************************)
\* agent.analyze returns a response (the concrete analysts always do).
AnalyzeReturns ==
    /\ pc = "analysis"
    /\ i <= NumAgents
    /\ \E reply \in LLMReplies :
          /\ heap' = [heap EXCEPT ![i] = analyze(i, reply)]
          /\ failed_agents' = IF analyze_fails(reply)
                              THEN failed_agents \cup {i}
                              ELSE failed_agents
          /\ last_call' = [agent |-> i, round |-> 0,
                           outcome |-> Outcome(reply),
                           failed |-> analyze_fails(reply)]
    /\ responses' = Append(responses, i)
    /\ calls' = [calls EXCEPT ![i] = Append(@, 0)]
    /\ i' = i + 1
    /\ UNCHANGED <<pc, round_num, current_responses, all_rounds, debate_round,
                   result, exception, loop_exit, events, held>>
    /\ UNCHANGED <<report, trading_signal>>
    /\ UNCHANGED <<function_vars, deadline>>

\* agent.analyze raises: logged, the agent contributes nothing.
AnalyzeRaises ==
    /\ pc = "analysis"
    /\ i <= NumAgents
    /\ failed_agents' = failed_agents \cup {i}
    /\ last_call' = [agent |-> i, round |-> 0, outcome |-> "raised",
                     failed |-> TRUE]
    /\ calls' = [calls EXCEPT ![i] = Append(@, 0)]
    /\ i' = i + 1
    /\ UNCHANGED <<pc, round_num, heap, responses, current_responses,
                   all_rounds, debate_round, result, exception, loop_exit,
                   events, held>>
    /\ UNCHANGED <<report, trading_signal>>
    /\ UNCHANGED <<function_vars, deadline>>

(***************************************************************************)
(* run_full_debate after the initial analysis: the error return, or round  *)
(* 0 and the entry into the loop over rounds.                              *)
(***************************************************************************)
NoResponses ==
    /\ pc = "analysis"
    /\ i > NumAgents
    /\ responses = <<>>
    /\ result' = ErrorResult
    /\ pc' = "returned"
    /\ loop_exit' = "no_responses"
    /\ UNCHANGED <<i, round_num, heap, responses, current_responses,
                   all_rounds, debate_round, exception, calls, events, held>>
    /\ UNCHANGED <<report, trading_signal, failed_agents, last_call>>
    /\ UNCHANGED <<function_vars, deadline>>

InitialRound ==
    /\ pc = "analysis"
    /\ i > NumAgents
    /\ responses # <<>>
    /\ current_responses' = responses
    /\ LET initial_round == [DebateRound(0) EXCEPT
                                !.agent_responses = responses]
       IN  /\ all_rounds' = <<initial_round>>
           /\ held' = <<Snapshot(initial_round, heap)>>
    /\ round_num' = 1
    /\ pc' = "round"
    /\ UNCHANGED <<i, heap, responses, debate_round, result, exception,
                   loop_exit, calls, events>>
    /\ UNCHANGED <<report, trading_signal, failed_agents, last_call>>
    /\ UNCHANGED <<function_vars, deadline>>

(***************************************************************************)
(* The tail of one iteration of the loop of run_full_debate, from the      *)
(* return of conduct_debate_round on: record the round, test for early     *)
(* consensus, then break, go round again, or leave the loop exhausted.     *)
(***************************************************************************)
\* Mutant: range(1, self.max_rounds + 2).
LoopBoundOffByOne == max_rounds + 1

\* range(1, self.max_rounds + 1): the last round_num the loop takes
LoopBound == max_rounds

\* Mutant: the early-consensus test never breaks.
EarlyConsensusNever(disagreements) == FALSE

\* "if not disagreements: ... break"
EarlyConsensus(disagreements) == disagreements = {}

FinishRound(round) ==
    LET has_responses == round.agent_responses # <<>>
        cur == IF has_responses THEN round.agent_responses
               ELSE current_responses
        closed == IF has_responses
                  THEN [round EXCEPT !.consensus_level =
                            calculate_consensus(Vals(heap, cur))]
                  ELSE round
        rounds == Append(all_rounds, closed)
        disagreements == identify_disagreements(Vals(heap, cur))
    IN  /\ current_responses' = cur
        /\ all_rounds' = rounds
        /\ held' = Append(held, Snapshot(closed, heap))
        /\ IF EarlyConsensus(disagreements)
           THEN /\ loop_exit' = "break"
                /\ pc' = "returned"
                /\ result' = CompileResult(rounds, cur, heap)
                /\ UNCHANGED round_num
           ELSE IF round_num >= LoopBound
           THEN /\ loop_exit' = "exhausted"
                /\ pc' = "returned"
                /\ result' = CompileResult(rounds, cur, heap)
                /\ UNCHANGED round_num
           ELSE /\ round_num' = round_num + 1
                /\ pc' = "round"
                /\ UNCHANGED <<loop_exit, result>>

(***************************************************************************)
(* conduct_debate_round, up to the loop over the agents.                   *)
(***************************************************************************)
\* No disagreement: the empty DebateRound is returned at once.
RoundWithoutDisagreement ==
    /\ pc = "round"
    /\ identify_disagreements(Vals(heap, current_responses)) = {}
    /\ debate_round' = DebateRound(round_num)
    /\ FinishRound(DebateRound(round_num))
    /\ UNCHANGED <<i, heap, responses, exception, calls, events>>
    /\ UNCHANGED <<report, trading_signal, failed_agents, last_call>>
    /\ UNCHANGED <<function_vars, deadline>>

StartRound ==
    /\ pc = "round"
    /\ identify_disagreements(Vals(heap, current_responses)) # {}
    /\ debate_round' = DebateRound(round_num)
    /\ i' = 1
    /\ pc' = "debate"
    /\ UNCHANGED <<round_num, heap, responses, current_responses, all_rounds,
                   result, exception, loop_exit, calls, events, held>>
    /\ UNCHANGED <<report, trading_signal, failed_agents, last_call>>
    /\ UNCHANGED <<function_vars, deadline>>

(***************************************************************************)
(* conduct_debate_round: one iteration of                                  *)
(* "for i, agent in enumerate(self.agents)".  previous_responses is        *)
(* current_responses; previous_responses[i] is an IndexError when the      *)
(* list is shorter than the agent list.                                    *)
(***************************************************************************)
Spend(reply) == IF reply = EmptyReply THEN 0 ELSE 1

\* The exception handler, "debate_round.add_response(previous_responses[i])":
\* it indexes the list again, outside any try.
CarryForward(h) ==
    IF i > Len(current_responses)
    THEN /\ pc' = "raised"
         /\ exception' = "IndexError"
         /\ heap' = h
         /\ UNCHANGED debate_round
    ELSE /\ debate_round' = [debate_round EXCEPT !.agent_responses =
                                Append(@, current_responses[i])]
         /\ heap' = h
         /\ UNCHANGED <<pc, exception>>

DebateStep(budget) ==
    /\ pc = "debate"
    /\ i <= NumAgents
    /\ \E reply \in LLMReplies :
        /\ events + Spend(reply) <= budget
        /\ events' = events + Spend(reply)
        /\ last_call' =
                [agent |-> i, round |-> round_num, outcome |-> Outcome(reply),
                 failed |-> \/ reply.kind = "raise"
                            \/ i > Len(current_responses)
                            \/ /\ parse_llm_response(reply).has_conf
                               /\ ~parse_llm_response(reply).numeric]
        /\ IF reply.kind = "raise" \/ i > Len(current_responses)
           THEN \* call_llm raised, or previous_responses[i] did
                CarryForward(heap)
           ELSE LET parsed == parse_llm_response(reply)
                    ref == current_responses[i]
                    previous == heap[ref]
                    rec == IF parsed.has_rec THEN parsed.recommendation
                           ELSE previous.recommendation
                    h1 == [heap EXCEPT ![ref].recommendation = rec]
                IN  IF parsed.has_conf /\ ~parsed.numeric
                    THEN \* float() raised after the recommendation was set
                         CarryForward(h1)
                    ELSE LET conf == IF parsed.has_conf THEN parsed.confidence
                                     ELSE previous.confidence
                             h2 == [h1 EXCEPT ![ref].confidence = conf]
                             debate ==
                                [agent |-> i,
                                 previous_position |->
                                    [recommendation |-> previous.recommendation,
                                     confidence |-> previous.confidence],
                                 new_position |->
                                    [recommendation |-> rec,
                                     confidence |-> conf],
                                 changed |-> previous.recommendation # rec]
                         IN  /\ heap' = h2
                             /\ debate_round' =
                                    [debate_round EXCEPT
                                        !.agent_responses = Append(@, ref),
                                        !.debates = Append(@, debate)]
                             /\ UNCHANGED <<pc, exception>>
    /\ calls' = [calls EXCEPT ![i] = Append(@, round_num)]
    /\ i' = i + 1
    /\ UNCHANGED <<round_num, responses, current_responses, all_rounds,
                   result, loop_exit, held>>
    /\ UNCHANGED <<report, trading_signal, failed_agents>>
    /\ UNCHANGED <<function_vars, deadline>>

\* Mutant: the loop may be left after the first agent.
AgentLoopOverAfterFirst == i > 1

\* "for i, agent in enumerate(self.agents)" has been through every agent.
AgentLoopOver == i > NumAgents

\* The agent loop is over: conduct_debate_round returns the round.
CloseRound ==
    /\ pc = "debate"
    /\ AgentLoopOver
    /\ FinishRound(debate_round)
    /\ UNCHANGED <<i, heap, responses, debate_round, exception, calls, events>>
    /\ UNCHANGED <<report, trading_signal, failed_agents, last_call>>
    /\ UNCHANGED <<function_vars, deadline>>

\* Time passes in the middle of a round, an analyst still to be called, and
\* the session's overall deadline goes by.  Nothing in run_full_debate or
\* conduct_debate_round reads a clock (the only timeout of the repository,
\* agent_timeout_seconds, is declared in config.py and read nowhere), so no
\* state of the session changes.
DeadlinePasses ==
    /\ pc = "debate"
    /\ ~AgentLoopOver
    /\ ~deadline.passed
    /\ deadline' = [passed |-> TRUE, round |-> round_num]
    /\ UNCHANGED <<pc, i, round_num, heap, responses, current_responses>>
    /\ UNCHANGED <<all_rounds, debate_round, result, exception, loop_exit>>
    /\ UNCHANGED <<calls, events, held, report, trading_signal>>
    /\ UNCHANGED <<failed_agents, last_call, function_vars>>

(***************************************************************************)
(* ECassanSystem.analyze_stock, steps 4 and 5: the result of               *)
(* run_full_debate, whichever dictionary it is, goes to                    *)
(* generate_final_report and the report to generate_signal.  An exception  *)
(* of either is re-raised to the caller.                                   *)
(***************************************************************************)
\* debate_result.get(key) is None for a key the dictionary lacks.
NoneFields(debate_result) ==
    {"ticker", "company_name", "total_rounds"} \ debate_result.keys

GenerateFinalReport ==
    /\ pc = "returned"
    /\ \E method \in Methods :
        LET data == result.final_responses
            rs == [k \in 1..Len(data) |->
                    AgentResponse(data[k].agent, data[k].recommendation,
                                  data[k].confidence)]
            consensus == build_consensus(rs, method, agent_weights)
        IN  IF \E k \in 1..Len(data) : ~ConfidenceValid(data[k].confidence)
            THEN \* AgentResponse(...) rejects the confidence
                 /\ pc' = "raised"
                 /\ exception' = "ValidationError"
                 /\ UNCHANGED report
            ELSE IF consensus.raises # "none"
            THEN /\ pc' = "raised"
                 /\ exception' = consensus.raises
                 /\ UNCHANGED report
            ELSE /\ pc' = "reported"
                 /\ report' =
                        [made |-> TRUE,
                         none_fields |-> NoneFields(result),
                         consensus |-> consensus,
                         total_rounds |-> result.total_rounds,
                         participating_agents |-> Len(rs),
                         individual_positions |-> data]
                 /\ UNCHANGED exception
    /\ UNCHANGED <<i, round_num, heap, responses, current_responses,
                   all_rounds, debate_round, result, loop_exit, calls, events,
                   held, trading_signal, failed_agents, last_call>>
    /\ UNCHANGED <<function_vars, deadline>>

\* consensus.get(key, {}) of generate_signal
GetDict(consensus, key, value, default) ==
    IF key \in consensus.keys THEN value ELSE default

GenerateSignal ==
    /\ pc = "reported"
    /\ \E current_price \in Prices :
        LET consensus == report.consensus
            signal == determine_signal_strength(consensus.recommendation,
                        consensus.confidence, consensus.consensus_level)
        IN  IF TradingSignalValid(report.none_fields, consensus.confidence,
                                  consensus.consensus_level)
            THEN /\ pc' = "signalled"
                 /\ trading_signal' =
                        [made |-> TRUE,
                         signal |-> signal,
                         confidence |-> consensus.confidence,
                         consensus_level |-> consensus.consensus_level,
                         agent_breakdown |->
                            GetDict(consensus, "breakdown",
                                    consensus.breakdown, NoCounts),
                         weighted_scores |->
                            GetDict(consensus, "weighted_scores",
                                    consensus.weighted_scores, NoScores),
                         targets |->
                            estimate_price_targets(consensus.recommendation,
                                consensus.confidence, current_price),
                         time_horizon |->
                            determine_time_horizon(consensus.confidence),
                         total_agents |-> report.participating_agents,
                         debate_rounds |-> report.total_rounds,
                         methodology |-> consensus.method,
                         individual_agent_views |-> report.individual_positions]
                 /\ UNCHANGED exception
            ELSE /\ pc' = "raised"
                 /\ exception' = "ValidationError"
                 /\ UNCHANGED trading_signal
    /\ UNCHANGED <<i, round_num, heap, responses, current_responses,
                   all_rounds, debate_round, result, loop_exit, calls, events,
                   held, report, failed_agents, last_call>>
    /\ UNCHANGED <<function_vars, deadline>>

\* One run of DebateManager.run_full_debate.
Next ==
    \/ AnalyzeReturns
    \/ AnalyzeRaises
    \/ NoResponses
    \/ InitialRound
    \/ RoundWithoutDisagreement
    \/ StartRound
    \/ DebateStep(MaxEvents)
    \/ CloseRound

Spec == Init /\ [][Next]_vars

\* One run of ECassanSystem.analyze_stock from step 3 on.
NextChain ==
    \/ AnalyzeReturns
    \/ AnalyzeRaises
    \/ NoResponses
    \/ InitialRound
    \/ RoundWithoutDisagreement
    \/ StartRound
    \/ DebateStep(MaxChainEvents)
    \/ CloseRound
    \/ GenerateFinalReport
    \/ GenerateSignal

SpecChain == Init /\ [][NextChain]_vars

\* run_full_debate while time passes: the deadline may go by in any round.
NextDeadline ==
    \/ AnalyzeReturns
    \/ AnalyzeRaises
    \/ NoResponses
    \/ InitialRound
    \/ RoundWithoutDisagreement
    \/ StartRound
    \/ DebateStep(MaxChainEvents)
    \/ CloseRound
    \/ DeadlinePasses

SpecDeadline == Init /\ [][NextDeadline]_vars

(***************************************************************************)
(* identify_disagreements and build_consensus called on their own, on      *)
(* every list of up to MaxPositions well-formed positions and on the       *)
(* scenario the specification states for the majority method.              *)
(***************************************************************************)
MaxPositions == 3

\* The confidences of the positions, in hundredths: the two thresholds of
\* the confidence_divergence descriptor, one value under and one over both.
Confidences == {0, 40, 70, 90}

PositionLists ==
    UNION { { [k \in 1..n |-> AgentResponse(k, f[k][1], f[k][2])] :
                f \in [1..n -> Recommendations \X Confidences] } :
            n \in 0..MaxPositions }

\* Votes {BUY, BUY, BUY, SELL} with confidences {0.9, 0.8, 0.7, 0.6}.
MajorityScenario ==
    << AgentResponse(1, "BUY", 90), AgentResponse(2, "BUY", 80),
       AgentResponse(3, "BUY", 70), AgentResponse(4, "SELL", 60) >>

\* ConsensusBuilder.agent_weights: {} as constructed, or what
\* set_agent_weights was given (uniform weights for every analyst, or
\* unequal weights that leave out the analysts from the third on).
NoWeights == [a \in {} |-> RatZero]
UniformWeights == [a \in 1..(MaxPositions + 1) |-> Hundredths(DefaultWeight)]
UnequalWeights == [a \in 1..2 |-> IF a = 1 THEN Hundredths(40) ELSE Hundredths(10)]
WeightMaps == {NoWeights, UniformWeights, UnequalWeights}

InitFunctions ==
    /\ InitSession
    /\ positions \in PositionLists \cup {MajorityScenario}
    /\ weight_map \in WeightMaps
    /\ consensus_result = NoConsensus
    /\ disagreement_list = NoDisagreements
    /\ signal_input = NoSignalInput
    /\ signal_output = NoSignalOutput

\* One call is made on each input.
NoCallYet == ~consensus_result.made /\ ~disagreement_list.made

IdentifyDisagreements ==
    /\ NoCallYet
    /\ disagreement_list' =
            [made |-> TRUE, list |-> identify_disagreements_list(positions)]
    /\ UNCHANGED <<positions, weight_map, consensus_result>>
    /\ UNCHANGED <<signal_input, signal_output>>
    /\ UNCHANGED session_vars

BuildConsensus ==
    /\ NoCallYet
    /\ \E method \in Methods :
            consensus_result' =
                [made |-> TRUE, method |-> method,
                 result |-> build_consensus(positions, method, weight_map)]
    /\ UNCHANGED <<positions, weight_map, disagreement_list>>
    /\ UNCHANGED <<signal_input, signal_output>>
    /\ UNCHANGED session_vars

NextFunctions ==
    \/ IdentifyDisagreements
    \/ BuildConsensus

SpecFunctions == InitFunctions /\ [][NextFunctions]_vars

(***************************************************************************)
(* determine_signal_strength and estimate_price_targets called on their    *)
(* own, on a consensus of each recommendation with confidences and         *)
(* consensus levels on and around the escalation thresholds, with and      *)
(* without a current price.                                                *)
(***************************************************************************)
\* Confidences and consensus levels of the consensus, in hundredths.
SignalConfidences == {0, 50, 70, 79, 80, 100}
SignalConsensusLevels == {50, 74, 75, 100}

\* Current prices in hundredths: none, 1.00 and 100.00.
SignalPrices == {NoPrice, 100, 10000}

SignalInputs ==
    [recommendation : Recommendations, confidence : SignalConfidences,
     consensus_level : SignalConsensusLevels, current_price : SignalPrices]

InitSignal ==
    /\ InitSession
    /\ positions = <<>>
    /\ weight_map = agent_weights
    /\ consensus_result = NoConsensus
    /\ disagreement_list = NoDisagreements
    /\ signal_input \in SignalInputs
    /\ signal_output = NoSignalOutput

DetermineSignalStrength ==
    /\ signal_output.made = "none"
    /\ signal_output' =
            [signal_output EXCEPT
                !.made = "strength",
                !.signal = determine_signal_strength(
                                signal_input.recommendation,
                                Hundredths(signal_input.confidence),
                                Hundredths(signal_input.consensus_level))]
    /\ UNCHANGED <<positions, weight_map, consensus_result, disagreement_list,
                   signal_input>>
    /\ UNCHANGED session_vars

EstimatePriceTargets ==
    /\ signal_output.made = "none"
    /\ signal_output' =
            [signal_output EXCEPT
                !.made = "targets",
                !.targets = estimate_price_targets(
                                signal_input.recommendation,
                                Hundredths(signal_input.confidence),
                                signal_input.current_price)]
    /\ UNCHANGED <<positions, weight_map, consensus_result, disagreement_list,
                   signal_input>>
    /\ UNCHANGED session_vars

NextSignal ==
    \/ DetermineSignalStrength
    \/ EstimatePriceTargets

SpecSignal == InitSignal /\ [][NextSignal]_vars

(***************************************************************************)
(* Properties                                                              *)
(***************************************************************************)
\* A run of run_full_debate is over: it returned or an exception escaped.
Terminated == pc \in {"returned", "raised"}

\* run_full_debate returned the full result (not the error dictionary).
ReturnedResult == pc = "returned" /\ loop_exit \in {"break", "exhausted"}

\* The most frequent recommendation's share of a list of positions.
ModalShare(ps) ==
    LET count(rec) == Cardinality({k \in 1..Len(ps) : ps[k].recommendation = rec})
        recs == {ps[k].recommendation : k \in 1..Len(ps)}
    IN  Rat(SetMax({count(rec) : rec \in recs}), Len(ps))

\* C1: when the round-0 positions hold no disagreement, the result lists
\* exactly one round (round 0) and total_rounds = 1.
C1_OneRoundWhenNoDisagreement ==
    (ReturnedResult /\ identify_disagreements(held[1]) = {})
        => /\ result.total_rounds = 1
           /\ Len(result.rounds) = 1
           /\ result.rounds[1].round_number = 0

\* The debate step of the agent at index k of a closed round failed: the
\* round holds no exchange of that agent.
StepFailed(round, k) ==
    \A d \in 1..Len(round.debates) : round.debates[d].agent # k

\* C2: in every closed debate round, the position recorded for an analyst
\* whose step failed has the recommendation and the confidence that analyst
\* had when the prior round closed.
C2_FailureCarriesPriorPosition ==
    \A r \in 2..Len(all_rounds) :
        \A k \in 1..Len(all_rounds[r].agent_responses) :
            StepFailed(all_rounds[r], k)
                => /\ held[r][k].recommendation = held[r - 1][k].recommendation
                   /\ held[r][k].confidence = held[r - 1][k].confidence

\* C3: no run with at least one round-0 position ends in an exception, in
\* run_full_debate or on the way to the TradingSignal.
C3_NoErrorPathCrashes ==
    responses # <<>> => pc # "raised"

\* C4: a run in which no analyst responded in round 0 never yields a
\* TradingSignal: the chain can only end in an exception for it.
C4_NoSignalWithoutResponses ==
    /\ trading_signal.made => responses # <<>>
    /\ loop_exit = "no_responses"
        => /\ pc \in {"returned", "reported", "raised"}
           /\ pc = "reported"
                => ~TradingSignalValid(report.none_fields,
                        report.consensus.confidence,
                        report.consensus.consensus_level)

C4_Witness ==
    /\ loop_exit = "no_responses"
    /\ report.made
    /\ pc = "raised"
    /\ exception = "ValidationError"

\* How far a run has come: it grows with every step and is bounded.
Progress ==
    LET base == NumAgents + 2
        per_round == NumAgents + 3
    IN  IF pc = "analysis" THEN i
        ELSE IF pc = "round" THEN base + (round_num - 1) * per_round
        ELSE IF pc = "debate" THEN base + (round_num - 1) * per_round + i
        ELSE base + max_rounds * per_round

\* A run that is not over stands in one of the three loops, at an agent or
\* just past the last one.
StepPending ==
    /\ pc \in {"analysis", "round", "debate"}
    /\ i \in 1..(NumAgents + 1)

C5_RoundsBounded ==
    /\ round_num <= max_rounds
    /\ Len(all_rounds) <= max_rounds + 1
    /\ \A k \in 1..Len(all_rounds) : all_rounds[k].round_number = k - 1
    /\ \A a \in Agents : \A c \in 1..Len(calls[a]) : calls[a][c] <= max_rounds
    /\ loop_exit = "exhausted"
        => /\ round_num = max_rounds
           /\ Len(all_rounds) = max_rounds + 1
           /\ identify_disagreements(Vals(heap, current_responses)) # {}
    /\ ~Terminated => StepPending
    /\ Progress <= NumAgents + 2 + max_rounds * (NumAgents + 3)

\* C5: run_full_debate terminates (every step makes progress towards a
\* bound and a run that is not over can take a step), it conducts at most
\* max_rounds debate rounds, numbered 1..max_rounds, and when round
\* max_rounds still leaves a disagreement it stops there, exhausted.
C5_TerminatesWithinMaxRounds ==
    []C5_RoundsBounded /\ [][Progress' > Progress]_vars

C5_Witness ==
    /\ pc = "returned"
    /\ loop_exit = "exhausted"
    /\ Len(all_rounds) = max_rounds + 1
    /\ all_rounds[max_rounds + 1].agent_responses # <<>>

\* C6: once a debate round r closed on positions without disagreement, it
\* is the last round of the session and no analyst is invoked after it.
C6_StopsOnConvergence ==
    \A r \in 2..Len(all_rounds) :
        (all_rounds[r].agent_responses # <<>>
            /\ identify_disagreements(held[r]) = {})
        => /\ Len(all_rounds) = r
           /\ pc = "returned"
           /\ loop_exit = "break"
           /\ \A a \in Agents : \A c \in 1..Len(calls[a]) : calls[a][c] <= r - 1

C6_Witness ==
    /\ pc = "returned"
    /\ loop_exit = "break"
    /\ Len(all_rounds) \in 2..max_rounds
    /\ all_rounds[Len(all_rounds)].agent_responses # <<>>
    /\ \E a \in Agents : \E c \in 1..Len(calls[a]) : calls[a][c] = Len(all_rounds) - 1

\* The two places where run_full_debate's control depends on the positions:
\* conduct_debate_round's "if not disagreements" and the early-consensus
\* test after a round.  DecisionPositions is the list tested there.
AtDecision == pc = "round" \/ (pc = "debate" /\ i > NumAgents)

DecisionPositions ==
    IF pc = "round" THEN Vals(heap, current_responses)
    ELSE Vals(heap, debate_round.agent_responses)

\* Confidences a second session may carry in place of this one's.
OtherConfidences == {0, 50, 100}

\* The same positions with other confidences.
WithConfidences(ps, cs) ==
    [k \in 1..Len(ps) |-> [ps[k] EXCEPT !.confidence = cs[k]]]

SpreadOf(ps) ==
    LET cs == {ps[k].confidence : k \in 1..Len(ps)}
    IN  SetMax(cs) - SetMin(cs)

\* C7 as claimed: at every decision of the session, a second session with
\* the same recommendations and any other confidences decides the same
\* (so both record the same rounds and stop for the same reason).
C7_ConfidenceIndependent ==
    AtDecision =>
        LET here == identify_disagreements(DecisionPositions) = {}
        IN  \A cs \in [1..Len(DecisionPositions) -> OtherConfidences] :
                (identify_disagreements(WithConfidences(DecisionPositions, cs)) = {})
                    = here

\* C7 as amended: at every decision of the session, a second session with
\* the same recommendations decides the same whenever its confidence
\* spread (max - min) lies on the same side of 0.4.
C7_SpreadDependentOnly ==
    AtDecision =>
        LET here == identify_disagreements(DecisionPositions) = {}
            wide == SpreadOf(DecisionPositions) > 40
        IN  \A cs \in [1..Len(DecisionPositions) -> OtherConfidences] :
                LET other == WithConfidences(DecisionPositions, cs)
                IN  ((SpreadOf(other) > 40) = wide)
                        => (identify_disagreements(other) = {}) = here

\* A session that converged although its analysts' confidences differ.
C7_Witness ==
    /\ pc = "returned"
    /\ loop_exit = "break"
    /\ Len(all_rounds) > 2
    /\ \E j, k \in 1..Len(current_responses) :
            heap[current_responses[j]].confidence
                # heap[current_responses[k]].confidence

\* C8: what the result reports for a round is what the round's positions
\* were when the round closed.
C8_RecordedPositionsImmutable ==
    ReturnedResult =>
        \A r \in 1..Len(result.rounds) :
            result.rounds[r].agent_responses = held[r]

\* C9: every reported round that holds positions reports the modal share
\* of its positions as consensus_level.
C9_ConsensusLevelIsModalShare ==
    ReturnedResult =>
        \A r \in 1..Len(result.rounds) :
            result.rounds[r].agent_responses # <<>>
                => result.rounds[r].consensus_level
                        = ModalShare(result.rounds[r].agent_responses)

\* A position with one of the four recommendations and a confidence in [0, 1].
WellFormed(p) ==
    /\ p.recommendation \in {"BUY", "SELL", "SHORT", "HOLD"}
    /\ p.confidence >= 0
    /\ p.confidence <= 100

\* C10: every position of every round, and every final response, is well
\* formed, in every state.
C10_PositionsWellFormed ==
    /\ \A r \in 1..Len(all_rounds) :
            \A k \in 1..Len(all_rounds[r].agent_responses) :
                WellFormed(heap[all_rounds[r].agent_responses[k]])
    /\ \A k \in 1..Len(debate_round.agent_responses) :
            WellFormed(heap[debate_round.agent_responses[k]])
    /\ \A k \in 1..Len(result.final_responses) :
            WellFormed(result.final_responses[k])

\* The agents the loop of conduct_initial_analysis has been through.
Analysed == IF pc = "analysis" THEN 1..(i - 1) ELSE Agents

InRoundZero(a) == \E k \in 1..Len(responses) : responses[k] = a

\* C11: the initial analysis invokes each analyst exactly once; an analyst
\* whose initial analysis failed contributes no position to round 0, every
\* other analyst's position is collected, and nothing is raised.
C11_FailedAnalystExcluded ==
    /\ \A a \in Analysed :
        /\ Cardinality({k \in 1..Len(calls[a]) : calls[a][k] = 0}) = 1
        /\ a \in failed_agents => ~InRoundZero(a)
        /\ a \notin failed_agents => InRoundZero(a)
    /\ pc = "analysis" => exception = "none"

(***************************************************************************)
(* identify_disagreements on its own                                       *)
(***************************************************************************)
\* The set of the elements of a sequence.
Range(seq) == {seq[k] : k \in 1..Len(seq)}

NoDuplicates(seq) == Cardinality(Range(seq)) = Len(seq)

\* The analysts of the position list that recommend one of recs.
Recommending(recs) ==
    {positions[k].agent_name :
        k \in {j \in 1..Len(positions) : positions[j].recommendation \in recs}}

DescriptorsOfType(type) ==
    {k \in 1..Len(disagreement_list.list) :
        disagreement_list.list[k].type = type}

\* C12: a recommendation_conflict descriptor is reported exactly when some
\* position recommends BUY and some position recommends SELL or SHORT, and
\* it lists exactly the analysts of each side.
C12_ConflictIffBuyAgainstSell ==
    disagreement_list.made =>
        LET conflicts == DescriptorsOfType("recommendation_conflict")
        IN  /\ Cardinality(conflicts) <= 1
            /\ conflicts # {} <=> /\ Recommending({"BUY"}) # {}
                                  /\ Recommending({"SELL", "SHORT"}) # {}
            /\ \A k \in conflicts :
                LET d == disagreement_list.list[k]
                IN  /\ Range(d.buy_agents) = Recommending({"BUY"})
                    /\ Range(d.sell_agents \o d.short_agents)
                            = Recommending({"SELL", "SHORT"})
                    /\ NoDuplicates(d.buy_agents)
                    /\ NoDuplicates(d.sell_agents \o d.short_agents)

\* A conflict is reported for BUY against SHORT with a HOLD standing by.
C12_Witness ==
    /\ disagreement_list.made
    /\ DescriptorsOfType("recommendation_conflict") # {}
    /\ Len(positions) = 3
    /\ Recommending({"SELL"}) = {}
    /\ Recommending({"SHORT"}) # {}
    /\ Recommending({"HOLD"}) # {}

\* The analysts of the position list whose confidence satisfies a test.
Above(c) == {positions[k].agent_name :
                k \in {j \in 1..Len(positions) : positions[j].confidence > c}}
Below(c) == {positions[k].agent_name :
                k \in {j \in 1..Len(positions) : positions[j].confidence < c}}

\* C13: a confidence_divergence descriptor is reported exactly when two
\* confidences lie more than 0.4 apart; its high list holds exactly the
\* analysts above 0.7, its low list exactly those below 0.4, and it comes
\* after the recommendation_conflict descriptor when both are reported.
C13_DivergenceIffSpreadOverThreshold ==
    disagreement_list.made =>
        LET divergences == DescriptorsOfType("confidence_divergence")
            conflicts == DescriptorsOfType("recommendation_conflict")
        IN  /\ Cardinality(divergences) <= 1
            /\ divergences # {} <=>
                    \E j, k \in 1..Len(positions) :
                        positions[j].confidence - positions[k].confidence > 40
            /\ \A k \in divergences :
                LET d == disagreement_list.list[k]
                IN  /\ Range(d.high_confidence) = Above(70)
                    /\ Range(d.low_confidence) = Below(40)
                    /\ NoDuplicates(d.high_confidence)
                    /\ NoDuplicates(d.low_confidence)
            /\ \A c \in conflicts : \A d \in divergences : c < d

\* Both descriptors are reported, with an analyst at exactly 0.7 left out of
\* the high list and analysts on both lists.
C13_Witness ==
    /\ disagreement_list.made
    /\ Len(disagreement_list.list) = 2
    /\ disagreement_list.list[2].high_confidence # <<>>
    /\ disagreement_list.list[2].low_confidence # <<>>
    /\ \E k \in 1..Len(positions) : positions[k].confidence = 70

\* A spread of exactly 0.4 is no divergence.
C13_WitnessBoundary ==
    /\ disagreement_list.made
    /\ disagreement_list.list = <<>>
    /\ \E j, k \in 1..Len(positions) :
            positions[j].confidence - positions[k].confidence = 40

(***************************************************************************)
(* build_consensus on its own                                              *)
(***************************************************************************)
\* The call was made on a non-empty list and returned.
Built == /\ consensus_result.made
         /\ positions # <<>>
         /\ consensus_result.result.raises = "none"

\* How many positions recommend rec.
Votes(rec) == Cardinality({k \in 1..Len(positions) :
                                positions[k].recommendation = rec})

\* C14: on a non-empty list every method returns the same consensus_level,
\* it lies in [0, 1], and it is the count of the most frequent
\* recommendation over the number of positions.
C14_ConsensusLevelSameForAllMethods ==
    (consensus_result.made /\ positions # <<>>) =>
        LET level == consensus_result.result.consensus_level
            top == CHOOSE c \in {Votes(r) : r \in Recommendations} :
                        \A r \in Recommendations : Votes(r) <= c
        IN  /\ consensus_result.result.raises = "none"
            /\ level.n * Len(positions) = top * level.d
            /\ level.n >= 0 /\ level.n <= level.d
            /\ \A m \in {"weighted", "majority", "confidence"} :
                    build_consensus(positions, m, weight_map).consensus_level
                        = level

\* The confidence method on a split list with unequal confidences and
\* unequal weights.
C14_Witness ==
    /\ Built
    /\ consensus_result.method = "confidence"
    /\ weight_map = UnequalWeights
    /\ consensus_result.result.consensus_level = Rat(2, 3)
    /\ \E j, k \in 1..Len(positions) :
            positions[j].confidence # positions[k].confidence

\* The sum of the counts of a breakdown.
RECURSIVE SumCounts(_, _)
SumCounts(f, S) ==
    IF S = {} THEN 0
    ELSE LET x == CHOOSE y \in S : TRUE
         IN  f[x] + SumCounts(f, S \ {x})

\* C15: whatever the method, the consensus of a non-empty final position
\* list carries a breakdown whose counts sum to the number of positions,
\* and the signal's agent_breakdown is that breakdown.
C15_BreakdownSumsToPositions ==
    /\ (report.made /\ report.participating_agents > 0) =>
            /\ "breakdown" \in report.consensus.keys
            /\ SumCounts(report.consensus.breakdown,
                         DOMAIN report.consensus.breakdown)
                    = report.participating_agents
    /\ (trading_signal.made /\ trading_signal.total_agents > 0) =>
            /\ trading_signal.agent_breakdown = report.consensus.breakdown
            /\ SumCounts(trading_signal.agent_breakdown,
                         DOMAIN trading_signal.agent_breakdown)
                    = trading_signal.total_agents

\* The sum of the four values of a score dict.
SumScores(scores) ==
    SumRat([k \in 1..Len(ScoreKeys) |-> scores[ScoreKeys[k]]], Len(ScoreKeys))

\* C16: the weighted method on a non-empty list returns weighted_scores
\* whose values are all non-negative and sum to 1.
C16_WeightedScoresSumToOne ==
    (Built /\ consensus_result.method = "weighted") =>
        LET scores == consensus_result.result.weighted_scores
        IN  /\ \A rec \in Recommendations : RatLE(RatZero, scores[rec])
            /\ RatEQ(SumScores(scores), RatOne)

\* C16, amended: the values of weighted_scores are non-negative and sum to
\* the reported confidence, the weight-normalized average confidence.
C16_WeightedScoresSumToConfidence ==
    (Built /\ consensus_result.method = "weighted") =>
        LET scores == consensus_result.result.weighted_scores
        IN  /\ \A rec \in Recommendations : RatLE(RatZero, scores[rec])
            /\ RatEQ(SumScores(scores), consensus_result.result.confidence)

\* The weighted method under unequal weights, on three positions of two
\* classes with confidences that are not zero: the scores sum to less
\* than 1.
C16_Witness ==
    /\ Built
    /\ consensus_result.method = "weighted"
    /\ weight_map = UnequalWeights
    /\ Len(positions) = 3
    /\ Cardinality({positions[k].recommendation : k \in 1..3}) = 2
    /\ \A k \in 1..3 : positions[k].confidence > 0
    /\ RatLT(SumScores(consensus_result.result.weighted_scores), RatOne)

\* The sum of f over the finite set S.
RECURSIVE SumOver(_, _)
SumOver(f, S) ==
    IF S = {} THEN RatZero
    ELSE LET x == CHOOSE y \in S : TRUE
         IN  RatAdd(f[x], SumOver(f, S \ {x}))

\* The indices of the positions that recommend rec.
Choosing(rec) == {k \in 1..Len(positions) : positions[k].recommendation = rec}

\* The weight of the k-th position: the configured one, or 1/n.
Weight(k) ==
    IF positions[k].agent_name \in DOMAIN weight_map
    THEN weight_map[positions[k].agent_name]
    ELSE Rat(1, Len(positions))

\* C17: the weighted method gives each class the sum of weight x confidence
\* of the analysts choosing it over the total weight, returns a class no
\* other class outscores, and reports the weight-normalized average
\* confidence of all positions.
C17_WeightedMethod ==
    (Built /\ consensus_result.method = "weighted") =>
        LET all == 1..Len(positions)
            w == [k \in all |-> Weight(k)]
            wc == [k \in all |->
                    RatMul(w[k], Hundredths(positions[k].confidence))]
            total == SumOver(w, all)
            score(rec) == RatDiv(SumOver(wc, Choosing(rec)), total)
            res == consensus_result.result
        IN  /\ \A rec \in Recommendations :
                    RatEQ(res.weighted_scores[rec], score(rec))
            /\ res.recommendation \in Recommendations
            /\ \A rec \in Recommendations :
                    RatLE(score(rec), score(res.recommendation))
            /\ RatEQ(res.confidence, RatDiv(SumOver(wc, all), total))

\* Unequal weights, the third analyst missing from the weight map, and the
\* winner is not the most frequent recommendation.
C17_Witness ==
    /\ Built
    /\ consensus_result.method = "weighted"
    /\ weight_map = UnequalWeights
    /\ Len(positions) = 3
    /\ Cardinality(Choosing(consensus_result.result.recommendation)) = 1
    /\ \E rec \in Recommendations : Cardinality(Choosing(rec)) = 2

\* The index at which rec is first encountered in the position list.
FirstSeen(rec) == CHOOSE k \in Choosing(rec) : \A j \in Choosing(rec) : k <= j

\* C18: the majority method returns the most frequent recommendation, the
\* one encountered first among equally frequent ones, and reports the mean
\* confidence of the positions that agree with it; on the votes BUY, BUY,
\* BUY, SELL with confidences 0.9, 0.8, 0.7, 0.6 it returns BUY with
\* consensus_level 0.75 and confidence 0.8.
C18_MajorityMethod ==
    (Built /\ consensus_result.method = "majority") =>
        LET res == consensus_result.result
            winner == res.recommendation
            agreeing == Choosing(winner)
            conf == [k \in 1..Len(positions) |->
                        Hundredths(positions[k].confidence)]
        IN  /\ agreeing # {}
            /\ \A rec \in Recommendations :
                    /\ Cardinality(Choosing(rec)) <= Cardinality(agreeing)
                    /\ (rec # winner
                        /\ Cardinality(Choosing(rec)) = Cardinality(agreeing))
                            => FirstSeen(winner) < FirstSeen(rec)
            /\ RatEQ(RatMul(res.confidence, Rat(Cardinality(agreeing), 1)),
                     SumOver(conf, agreeing))
            /\ positions = MajorityScenario =>
                    /\ winner = "BUY"
                    /\ res.consensus_level = Rat(75, 100)
                    /\ res.confidence = Rat(80, 100)

\* The majority method has answered the scenario BUY, BUY, BUY, SELL.
C18_Witness ==
    /\ Built
    /\ consensus_result.method = "majority"
    /\ positions = MajorityScenario
    /\ consensus_result.result.recommendation = "BUY"

\* A tie between two classes goes to the one encountered first, although
\* the other comes first among the keys BUY, SELL, SHORT, HOLD.
C18_WitnessTie ==
    /\ Built
    /\ consensus_result.method = "majority"
    /\ Len(positions) = 2
    /\ positions[1].recommendation = "HOLD"
    /\ positions[2].recommendation = "BUY"
    /\ consensus_result.result.recommendation = "HOLD"

\* The sum of the confidences of the positions at the indices in S, in
\* hundredths.
RECURSIVE SumConfidence(_)
SumConfidence(S) ==
    IF S = {} THEN 0
    ELSE LET k == CHOOSE j \in S : TRUE
         IN  positions[k].confidence + SumConfidence(S \ {k})

\* C19: the confidence method weighs each analyst's vote by its confidence
\* over the sum of all confidences, or by 1/n for every analyst when that
\* sum is zero, and returns a class whose summed weight no class exceeds.
C19_ConfidenceMethod ==
    (Built /\ consensus_result.method = "confidence") =>
        LET all == 1..Len(positions)
            total == SumConfidence(all)
            share(rec) == IF total = 0
                          THEN Rat(Cardinality(Choosing(rec)), Len(positions))
                          ELSE Rat(SumConfidence(Choosing(rec)), total)
            res == consensus_result.result
        IN  /\ \A rec \in Recommendations :
                    RatEQ(res.scores[rec], share(rec))
            /\ res.recommendation \in Recommendations
            /\ \A rec \in Recommendations :
                    RatLE(share(rec), share(res.recommendation))

\* One confident analyst outweighs two that agree with each other.
C19_Witness ==
    /\ Built
    /\ consensus_result.method = "confidence"
    /\ Len(positions) = 3
    /\ Cardinality(Choosing(consensus_result.result.recommendation)) = 1
    /\ \E rec \in Recommendations : Cardinality(Choosing(rec)) = 2

\* Every confidence is zero: the votes weigh 1/n each.
C19_WitnessFallback ==
    /\ Built
    /\ consensus_result.method = "confidence"
    /\ Len(positions) = 3
    /\ SumConfidence(1..3) = 0
    /\ consensus_result.result.recommendation = "SELL"
    /\ consensus_result.result.scores["SELL"] = Rat(2, 3)

\* The weight map gives every analyst of the list the same weight.
WeightsUniform ==
    \A j, k \in 1..Len(positions) : RatEQ(Weight(j), Weight(k))

ConfidencesEqual ==
    \A j, k \in 1..Len(positions) :
        positions[j].confidence = positions[k].confidence

\* C20: under uniform weights and with every analyst reporting the same
\* confidence, the methods weighted, confidence and majority return the
\* same recommendation.
C20_MethodsAgreeWhenUniform ==
    (Built /\ WeightsUniform /\ ConfidencesEqual) =>
        \A m \in {"weighted", "majority", "confidence"} :
            build_consensus(positions, m, weight_map).recommendation
                = consensus_result.result.recommendation

\* C21: on an empty list build_consensus returns HOLD with confidence 0.0
\* and consensus_level 0.0 under every method name, known or not, and
\* raises nothing.
C21_EmptyListGivesHold ==
    (consensus_result.made /\ positions = <<>>) =>
        /\ consensus_result.result.raises = "none"
        /\ consensus_result.result.recommendation = "HOLD"
        /\ RatEQ(consensus_result.result.confidence, RatZero)
        /\ RatEQ(consensus_result.result.consensus_level, RatZero)
        /\ {"recommendation", "confidence", "consensus_level"}
                \subseteq consensus_result.result.keys

\* An unknown method name was given with the empty list.
C21_Witness ==
    /\ consensus_result.made
    /\ positions = <<>>
    /\ consensus_result.method = "other"
    /\ consensus_result.result.recommendation = "HOLD"

(***************************************************************************)
(* SignalGenerator's functions on their own                                *)
(***************************************************************************)
Escalated ==
    [r \in {"BUY", "SELL", "SHORT"} |->
        IF r = "BUY" THEN "STRONG_BUY"
        ELSE IF r = "SELL" THEN "STRONG_SELL" ELSE "STRONG_SHORT"]

\* C22: BUY, SELL and SHORT are escalated to STRONG_BUY, STRONG_SELL and
\* STRONG_SHORT exactly when confidence >= 0.8 and consensus_level >= 0.75,
\* and are returned as they are otherwise; HOLD is never escalated.
C22_EscalationIffBothThresholds ==
    signal_output.made = "strength" =>
        LET rec == signal_input.recommendation
            both == /\ signal_input.confidence >= 80
                    /\ signal_input.consensus_level >= 75
        IN  IF rec = "HOLD" THEN signal_output.signal = "HOLD"
            ELSE IF both THEN signal_output.signal = Escalated[rec]
            ELSE signal_output.signal = rec

\* On the boundary: confidence 0.8 with consensus_level 0.75 escalates.
C22_Witness ==
    /\ signal_output.made = "strength"
    /\ signal_input.recommendation = "SHORT"
    /\ signal_input.confidence = 80
    /\ signal_input.consensus_level = 75
    /\ signal_output.signal = "STRONG_SHORT"

\* Just under it: confidence 0.79 does not.
C22_WitnessBelow ==
    /\ signal_output.made = "strength"
    /\ signal_input.recommendation = "SHORT"
    /\ signal_input.confidence = 79
    /\ signal_input.consensus_level = 75
    /\ signal_output.signal = "SHORT"

\* C23: with a current price p and confidence c, BUY gives target
\* p(1 + 0.05 + 0.10c) and stop 0.95p, SELL gives p(1 - 0.05 - 0.10c) and
\* 1.05p, SHORT gives p(1 - 0.10 - 0.15c) and p(1 + 0.05 + 0.03(1 - c)),
\* HOLD gives p and 0.90p; BUY at confidence 0.7 and price 100 gives 112 and
\* 95; both are unset exactly when there is no current price.
C23_PriceTargetFormulas ==
    signal_output.made = "targets" =>
        LET rec == signal_input.recommendation
            c == signal_input.confidence
            p == signal_input.current_price
            t == signal_output.targets
            target == IF rec = "BUY" THEN Rat(p * (10500 + 10 * c), 1000000)
                      ELSE IF rec = "SELL"
                      THEN Rat(p * (9500 - 10 * c), 1000000)
                      ELSE IF rec = "SHORT"
                      THEN Rat(p * (9000 - 15 * c), 1000000)
                      ELSE Rat(p, 100)
            stop == IF rec = "BUY" THEN Rat(p * 95, 10000)
                    ELSE IF rec = "SELL" THEN Rat(p * 105, 10000)
                    ELSE IF rec = "SHORT"
                    THEN Rat(p * (10500 + 3 * (100 - c)), 1000000)
                    ELSE Rat(p * 90, 10000)
        IN  /\ t.set <=> p # NoPrice
            /\ t.set => /\ RatEQ(t.price_target, target)
                        /\ RatEQ(t.stop_loss, stop)
            /\ (rec = "BUY" /\ c = 70 /\ p = 10000) =>
                    /\ t.price_target = Rat(112, 1)
                    /\ t.stop_loss = Rat(95, 1)

\* BUY at confidence 0.7 and price 100.
C23_Witness ==
    /\ signal_output.made = "targets"
    /\ signal_input.recommendation = "BUY"
    /\ signal_input.confidence = 70
    /\ signal_input.current_price = 10000
    /\ signal_output.targets.set

\* No current price: both are unset.
C23_WitnessUnset ==
    /\ signal_output.made = "targets"
    /\ signal_input.current_price = NoPrice
    /\ ~signal_output.targets.set

\* C30: for a positive price, BUY has stop_loss < price < price_target, SELL
\* and SHORT have price_target < price < stop_loss, HOLD has price_target =
\* price and stop_loss < price, and the SHORT target is never above the SELL
\* target for the same price and confidence.
C30_LevelsOnCorrectSide ==
    (signal_output.made = "targets" /\ signal_input.current_price > 0) =>
        LET rec == signal_input.recommendation
            price == Rat(signal_input.current_price, 100)
            t == signal_output.targets
            for(r) == estimate_price_targets(r,
                        Hundredths(signal_input.confidence),
                        signal_input.current_price)
        IN  /\ t.set
            /\ rec = "BUY" =>
                    RatLT(t.stop_loss, price) /\ RatLT(price, t.price_target)
            /\ rec \in {"SELL", "SHORT"} =>
                    RatLT(t.price_target, price) /\ RatLT(price, t.stop_loss)
            /\ rec = "HOLD" =>
                    RatEQ(t.price_target, price) /\ RatLT(t.stop_loss, price)
            /\ RatLE(for("SHORT").price_target, for("SELL").price_target)

\* SHORT at full confidence: the lowest target and the tightest stop.
C30_Witness ==
    /\ signal_output.made = "targets"
    /\ signal_input.recommendation = "SHORT"
    /\ signal_input.confidence = 100
    /\ signal_input.current_price = 10000
    /\ signal_output.targets.price_target = Rat(75, 1)
    /\ signal_output.targets.stop_loss = Rat(105, 1)

\* C27: on a non-empty list, under every weight map, the recommendation
\* each method returns is held by at least one analyst of the list; when
\* every analyst recommends HOLD the consensus is HOLD.
C27_ConsensusHeldBySomeAnalyst ==
    Built =>
        /\ Choosing(consensus_result.result.recommendation) # {}
        /\ (\A k \in 1..Len(positions) : positions[k].recommendation = "HOLD")
                => consensus_result.result.recommendation = "HOLD"

(***************************************************************************)
(* The order of the analyst calls of a session                             *)
(***************************************************************************)
\* How often agent a was invoked in round r.
CallsIn(a, r) == Cardinality({k \in 1..Len(calls[a]) : calls[a][k] = r})

\* C25: in a closed debate round that holds positions every analyst was
\* invoked exactly once; no analyst is invoked in a round before the round
\* before it has closed; and a round in progress works from the full
\* position set of the round that closed last.
C25_RoundsSequentialWithBarrier ==
    /\ \A r \in 1..(Len(all_rounds) - 1) :
            all_rounds[r + 1].agent_responses # <<>>
                => \A a \in Agents : CallsIn(a, r) = 1
    /\ \A a \in Agents : \A r \in 1..max_rounds :
            /\ CallsIn(a, r) <= 1
            /\ CallsIn(a, r) = 1 => Len(all_rounds) >= r
    /\ pc \in {"round", "debate"} =>
            /\ all_rounds[Len(all_rounds)].round_number = round_num - 1
            /\ current_responses = all_rounds[Len(all_rounds)].agent_responses

\* Round 2 is in progress after round 1 closed with every analyst heard.
C25_Witness ==
    /\ pc = "debate"
    /\ round_num = 2
    /\ i = 2
    /\ \A a \in Agents : CallsIn(a, 1) = 1
    /\ CallsIn(1, 2) = 1

\* The analysts whose positions a list of references holds.
AnalystsOf(refs) == {heap[refs[k]].agent_name : k \in 1..Len(refs)}

\* C28: every debate round that holds positions holds exactly one position
\* per analyst of round 0, and the position that the turn of analyst X
\* updates and records is the position of analyst X, also when an analyst
\* is missing from round 0.
C28_OnePositionPerAnalyst ==
    /\ \A r \in 2..Len(all_rounds) :
            all_rounds[r].agent_responses # <<>> =>
                /\ AnalystsOf(all_rounds[r].agent_responses)
                        = AnalystsOf(all_rounds[1].agent_responses)
                /\ Len(all_rounds[r].agent_responses)
                        = Len(all_rounds[1].agent_responses)
    /\ \A k \in 1..Len(debate_round.agent_responses) :
            heap[debate_round.agent_responses[k]].agent_name = k

(***************************************************************************)
(* What an analyst call leaves behind                                      *)
(***************************************************************************)
\* C24: after a reply that could not be parsed, in the initial analysis or
\* in a debate round, the analyst's position is the neutral default, HOLD
\* with confidence 0.5, and nothing has been raised.
C24_UnparsedReplyGivesNeutralDefault ==
    last_call.outcome = "unparsed" =>
        /\ exception = "none"
        /\ heap[last_call.agent].recommendation = "HOLD"
        /\ heap[last_call.agent].confidence = DefaultConfidence
        /\ InRoundZero(last_call.agent)

\* The recommendation and confidence that a list of reported positions
\* holds for analyst a.
PositionsOf(ps, a) ==
    {[recommendation |-> ps[k].recommendation, confidence |-> ps[k].confidence] :
        k \in {j \in 1..Len(ps) : ps[j].agent = a}}

EntriesOf(debates, a) == {k \in 1..Len(debates) : debates[k].agent = a}

\* C29: round 0 has no exchanges; a debate step that succeeded leaves
\* exactly one exchange entry for its analyst and a step that failed leaves
\* none; in the result, an entry's previous_position is the analyst's
\* position as the round before closed with it, its new_position is the
\* position the round reports for the analyst, and changed tells whether
\* the two recommendations differ.
C29_ExchangesMatchPositions ==
    /\ Len(all_rounds) >= 1 => all_rounds[1].debates = <<>>
    /\ (last_call.round >= 1 /\ debate_round.round_number = last_call.round) =>
            Cardinality(EntriesOf(debate_round.debates, last_call.agent))
                = IF last_call.failed THEN 0 ELSE 1
    /\ ReturnedResult =>
        \A r \in 2..Len(result.rounds) :
            \A k \in 1..Len(result.rounds[r].debates) :
                LET e == result.rounds[r].debates[k]
                IN  /\ PositionsOf(held[r - 1], e.agent) = {e.previous_position}
                    /\ PositionsOf(result.rounds[r].agent_responses, e.agent)
                            = {e.new_position}
                    /\ e.changed <=> e.previous_position.recommendation
                                        # e.new_position.recommendation

\* C26: once the deadline has passed in the middle of a round, no further
\* round is started, and the session that returns has ended with its round
\* budget exhausted.
C26_DeadlineEndsSession ==
    deadline.passed =>
        /\ debate_round.round_number <= deadline.round
        /\ ReturnedResult => loop_exit = "exhausted"

====
